---- MODULE Spec2Model ----
(***************************************************************************)
(* Model of the (7,5) convolutional code / hard-decision Viterbi link of   *)
(* FPGA_Telemetry: the software reference path of                          *)
(* scripts/generate_readme_artifacts.py and the cocotb drivers under sim/. *)
(***************************************************************************)
EXTENDS Integers, Sequences, FiniteSets, TLC

(***************************************************************************)
(* Bounds of the model.                                                    *)
(***************************************************************************)
\* longest payload drawn for the software link
MaxPayload == 3
\* longest received sequence (in pairs) handed directly to the decoder
MaxT == 5
\* most coded bits the software channel inverts in one transmission
MaxFlips == 1
\* most samples per symbol of the software link (8 in the source)
MaxSps == 3

(***************************************************************************)
(* State.                                                                  *)
(***************************************************************************)
\* the module-level tables, NEXT_STATE, OUT_BITS = _precompute()
VARIABLES NEXT_STATE, OUT_BITS

trellisvars == <<NEXT_STATE, OUT_BITS>>

\* the software link (simulate_ber) and the two sequence benches
VARIABLES
    bench,      \* which driver runs: "link", "decode", "viterbi_sequence", "convenc_smoke"
    step,       \* position of that driver
    payload,    \* payload / u_payload / src
    bits_tx,    \* encoder input: payload followed by its tail
    coded,      \* encoder output, flat v1,v0,...
    ref,        \* list of pairs of the bench's reference encoder
    flips,      \* positions of coded the channel inverted
    sps,        \* samples per symbol of the software link
    samp,       \* matched-filter output at the symbol centres
    hard,       \* hard decisions handed to the decoder (rx_pairs)
    dec         \* result of viterbi_decode_hard_7_5

linkvars == <<bench, step, payload, bits_tx, coded, ref, flips, sps, samp, hard, dec>>

\* the device under test of the hardware sweep
VARIABLES
    dev_wiring,     \* which pin carries v1: "y0_is_v1" or "y1_is_v1"
    dev_enc_lat,    \* cycles between sampling a bit and asserting enc_out_valid
    dev_tb,         \* traceback depth of the decoder
    dut             \* registers and output pins of the device

devvars == <<dev_wiring, dev_enc_lat, dev_tb, dut>>

\* the bench test_ber_sweep
VARIABLES
    hw_pc,          \* position of the coroutine test_ber_sweep
    error,          \* the AssertionError that ended the test, or "none"
    log,            \* records written through dut._log
    rng,            \* state of the generator rng, -1 when its values are left open
    drawn,          \* the values a seeded rng has returned so far, oldest first
    rng_draws,      \* number of values drawn from rng so far
    ENC_LATENCY,    \* the knob ENC_LATENCY
    P_FLIPS,        \* the knob P_FLIPS, in percent
    pass,           \* "cal_a", "cal_b" (the two passes of calibrate_mapping) or "trial"
    pass_mapping,   \* the mapping the running pass interprets the pins with
    hw_payload,     \* payload of the running pass
    in_stream,      \* payload + [0] * TB_LEN
    k,              \* index of the next element of in_stream / noisy
    hw_coded,       \* coded: list of (v1, v0)
    noisy,          \* coded after the flips
    decided,        \* decoder output bits captured so far
    dec_samples,    \* (dec_bit_valid, dec_bit_out) as read after every edge of the feed and the drain
    call,           \* the running call of enc_push_bit_and_get_symbol
    errs_a, got_a,  \* result of the pass with 'y0_is_v1'
    errs_b, got_b,  \* result of the pass with 'y1_is_v1'
    mapping,        \* the mapping calibrate_mapping returned, "none" before
    p_idx,          \* index into P_FLIPS of the running sweep point
    trial,          \* trials of this point completed
    bit_errors,
    bit_total,
    rows,           \* rows appended so far
    csv             \* rows written to the CSV file

passvars == <<pass, pass_mapping, hw_payload, in_stream, k, hw_coded, noisy,
              decided, dec_samples>>
calvars == <<errs_a, got_a, errs_b, got_b, mapping>>
pointvars == <<p_idx, trial, bit_errors, bit_total, rows, csv>>
hwvars == <<hw_pc, error, log, rng, drawn, rng_draws, ENC_LATENCY, P_FLIPS, passvars, call, calvars,
            pointvars>>

\* two runs of test_ber_sweep with the same seed, one after the other
VARIABLES
    rng_seed,       \* the knob rng_seed, -1 when the values of rng are left open
    run,            \* 1 or 2: which of the two runs executes
    first_out       \* <<outcome of the first run>> once it has ended, <<>> before

runvars == <<rng_seed, run, first_out>>

vars == <<trellisvars, linkvars, devvars, hwvars, runvars>>

\* what the software link and the sequence benches leave alone
sweep_at_rest == UNCHANGED <<trellisvars, devvars, hwvars, runvars>>

\* what a step of the hardware sweep leaves alone
link_at_rest == UNCHANGED <<trellisvars, linkvars, runvars>>

(***************************************************************************)
(* Bit arithmetic on small non-negative integers.                          *)
(***************************************************************************)
Bit == {0, 1}

\* a ^ b on single bits
XOR(a, b) == (a + b) % 2

RECURSIVE BitAnd(_, _)
\* x & y
BitAnd(x, y) ==
    IF x = 0 \/ y = 0 THEN 0
    ELSE (x % 2) * (y % 2) + 2 * BitAnd(x \div 2, y \div 2)

RECURSIVE popcount(_)
\* bin(x).count("1")
popcount(x) == IF x = 0 THEN 0 ELSE (x % 2) + popcount(x \div 2)

RECURSIVE Pow2(_)
\* 1 << n
Pow2(n) == IF n = 0 THEN 1 ELSE 2 * Pow2(n - 1)

\* all bit sequences of length n
BitSeqsOfLen(n) == [1..n -> Bit]

\* all bit sequences of length lo..hi
BitSeqs(lo, hi) == UNION {BitSeqsOfLen(n) : n \in lo..hi}

(***************************************************************************)
(* Convolutional (7,5)_oct encoder, K = 3.                                 *)
(***************************************************************************)
K == 3
m == K - 1
NUM_STATES == Pow2(m)
States == 0..(NUM_STATES - 1)

\* the encoder with the taps of v0 taken as 0b110
conv_encode_step_g6(state, b) ==
    LET st == ((state * 2) + (b % 2)) % 8
    IN [state |-> st,
        out |-> <<popcount(BitAnd(st, 7)) % 2, popcount(BitAnd(st, 6)) % 2>>]

\* the body of the loop of conv_encode_7_5: g1 = 0b111, g2 = 0b101
conv_encode_step(state, b) ==
    LET st == ((state * 2) + (b % 2)) % 8
        v1 == popcount(BitAnd(st, 7)) % 2
        v0 == popcount(BitAnd(st, 5)) % 2
    IN [state |-> st, out |-> <<v1, v0>>]

RECURSIVE conv_encode_from(_, _, _, _)
\* the loop of conv_encode_7_5: bits[i..], register state, output so far
conv_encode_from(bits, i, state, out) ==
    IF i > Len(bits) THEN out
    ELSE LET e == conv_encode_step(state, bits[i])
         IN conv_encode_from(bits, i + 1, e.state, out \o e.out)

RECURSIVE conv_encode_regs(_, _, _, _)
\* the values of the register state in the loop of conv_encode_7_5: the
\* initial one, then the one after each bit
conv_encode_regs(bits, i, state, regs) ==
    IF i > Len(bits) THEN regs
    ELSE LET e == conv_encode_step(state, bits[i])
         IN conv_encode_regs(bits, i + 1, e.state, Append(regs, e.state))

\* an encoder whose register starts at 1
conv_encode_7_5_preset(bits) == conv_encode_from(bits, 1, 1, <<>>)

\* conv_encode_7_5(bits): flat sequence v1,v0,v1,v0,...
conv_encode_7_5(bits) == conv_encode_from(bits, 1, 0, <<>>)

\* add_tail(bits, K): bits followed by K-1 zeros
add_tail(bits) == bits \o [i \in 1..(K - 1) |-> 0]

(***************************************************************************)
(* Reference encoders of the test benches (lists of pairs).                *)
(***************************************************************************)
\* enc_7_5 with the register shifted the wrong way (s1, s0 = u, s1)
enc_7_5_step_swapped(s1, s0, u) ==
    [out |-> <<XOR(XOR(u, s0), s1), XOR(u, s1)>>, s1 |-> u, s0 |-> s1]

\* the body of the loop of enc_7_5 (test_viterbi_sequence.py)
enc_7_5_step(s1, s0, u) ==
    LET v1 == XOR(XOR(u, s0), s1)
        v0 == XOR(u, s1)
    IN [out |-> <<v1, v0>>, s1 |-> s0, s0 |-> u]

RECURSIVE enc_7_5_from(_, _, _, _, _)
\* the loop of enc_7_5
enc_7_5_from(u_bits, i, s1, s0, out) ==
    IF i > Len(u_bits) THEN out
    ELSE LET e == enc_7_5_step(s1, s0, u_bits[i])
         IN enc_7_5_from(u_bits, i + 1, e.s1, e.s0, Append(out, e.out))

enc_7_5(u_bits) == enc_7_5_from(u_bits, 1, 0, 0, <<>>)

\* conv_ref with the two outputs appended in the other order
conv_ref_step_y1_first(d1, d0, u) ==
    [out |-> <<XOR(u, d0) % 2, XOR(XOR(u, d1), d0) % 2>>, d1 |-> u, d0 |-> d1]

\* the body of the loop of conv_ref (test_convenc_smoke.py): pair (y0, y1)
conv_ref_step(d1, d0, u) ==
    LET y0 == XOR(XOR(u, d1), d0) % 2
        y1 == XOR(u, d0) % 2
    IN [out |-> <<y0, y1>>, d1 |-> u, d0 |-> d1]

RECURSIVE conv_ref_from(_, _, _, _, _)
\* the loop of conv_ref
conv_ref_from(bits, i, d1, d0, out) ==
    IF i > Len(bits) THEN out
    ELSE LET e == conv_ref_step(d1, d0, bits[i])
         IN conv_ref_from(bits, i + 1, e.d1, e.d0, Append(out, e.out))

conv_ref(bits) == conv_ref_from(bits, 1, 0, 0, <<>>)

\* a list of pairs as a flat sequence
RECURSIVE Flatten(_)
Flatten(pairs) ==
    IF pairs = <<>> THEN <<>> ELSE Head(pairs) \o Flatten(Tail(pairs))

\* a flat sequence of even length as a list of pairs
Pairs(flat) == [t \in 1..(Len(flat) \div 2) |-> <<flat[2 * t - 1], flat[2 * t]>>]

(***************************************************************************)
(* Trellis precompute for the hard Viterbi decoder.                        *)
(***************************************************************************)
\* _precompute with next_state masked to K bits instead of K-1
precompute_edge_wide(s, u) ==
    LET new_shift == ((s * 2) + u) % Pow2(K)
        v1 == popcount(BitAnd(new_shift, 7)) % 2
        v0 == popcount(BitAnd(new_shift, 5)) % 2
    IN [next_state |-> ((s * 2) + u) % Pow2(K), out_bits |-> <<v1, v0>>]

\* the body of the loops of _precompute for one (s, u)
precompute_edge(s, u) ==
    LET new_shift == ((s * 2) + u) % Pow2(K)
        v1 == popcount(BitAnd(new_shift, 7)) % 2
        v0 == popcount(BitAnd(new_shift, 5)) % 2
    IN [next_state |-> ((s * 2) + u) % Pow2(K - 1), out_bits |-> <<v1, v0>>]

\* _precompute(): the tables next_state[s,u] and out_bits[s,u]
precompute ==
    [next_state |-> [s \in States |-> [u \in Bit |-> precompute_edge(s, u).next_state]],
     out_bits |-> [s \in States |-> [u \in Bit |-> precompute_edge(s, u).out_bits]]]

TrellisInit ==
    /\ NEXT_STATE = precompute.next_state
    /\ OUT_BITS = precompute.out_bits

(***************************************************************************)
(* Hard-decision Viterbi decoder, viterbi_decode_hard_7_5.                 *)
(***************************************************************************)
INF == 1000000000

\* one row of the tables pm, prev, prev_u as np.full creates it
fresh_row == [pm |-> [s \in States |-> INF],
              prev |-> [s \in States |-> -1],
              prev_u |-> [s \in States |-> -1]]

\* a comparison that lets an equal candidate replace the recorded one
improves_or_ties(cand, recorded) == cand <= recorded

\* if cand < pm[t+1,ns]
improves(cand, recorded) == cand < recorded

\* the innermost loop with a branch metric that ignores v0
relax_v1_only(row, pm_ts, s, u, r1, r0) ==
    LET ns   == NEXT_STATE[s][u]
        cand == pm_ts + XOR(OUT_BITS[s][u][1], r1)
    IN IF improves(cand, row.pm[ns])
       THEN [pm |-> [row.pm EXCEPT ![ns] = cand],
             prev |-> [row.prev EXCEPT ![ns] = s],
             prev_u |-> [row.prev_u EXCEPT ![ns] = u]]
       ELSE row

\* the body of the innermost loop: candidate through edge (s, u) into row t+1
relax(row, pm_ts, s, u, r1, r0) ==
    LET ns   == NEXT_STATE[s][u]
        v1   == OUT_BITS[s][u][1]
        v0   == OUT_BITS[s][u][2]
        bm   == XOR(v1, r1) + XOR(v0, r0)
        cand == pm_ts + bm
    IN IF improves(cand, row.pm[ns])
       THEN [pm |-> [row.pm EXCEPT ![ns] = cand],
             prev |-> [row.prev EXCEPT ![ns] = s],
             prev_u |-> [row.prev_u EXCEPT ![ns] = u]]
       ELSE row

RECURSIVE visit_states(_, _, _, _, _)
\* for s in range(NUM_STATES): skip unreachable s, else u = 0 then u = 1
visit_states(s, row, pm_t, r1, r0) ==
    IF s >= NUM_STATES THEN row
    ELSE IF pm_t[s] >= INF THEN visit_states(s + 1, row, pm_t, r1, r0)
    ELSE visit_states(s + 1,
                      relax(relax(row, pm_t[s], s, 0, r1, r0), pm_t[s], s, 1, r1, r0),
                      pm_t, r1, r0)

RECURSIVE forward_from(_, _, _, _)
\* for t in range(T): tbl is the sequence of tbl 0..t (tbl[t+1] is time t)
forward_from(rx_in, T, t, tbl) ==
    IF t >= T THEN tbl
    ELSE LET r1 == rx_in[2 * t + 1]
             r0 == rx_in[2 * t + 2]
         IN forward_from(rx_in, T, t + 1,
                Append(tbl, visit_states(0, fresh_row, tbl[t + 1].pm, r1, r0)))

\* a forward recursion that starts with every state at metric 0
forward_any_start(rx_in) ==
    LET T == Len(rx_in) \div 2
        row0 == [fresh_row EXCEPT !.pm = [s \in States |-> 0]]
    IN forward_from(rx_in, T, 0, <<row0>>)

\* the tables after the forward recursion, tbl 0..T
forward(rx_in) ==
    LET T == Len(rx_in) \div 2
        row0 == [fresh_row EXCEPT !.pm = [s \in States |-> IF s = 0 THEN 0 ELSE INF]]
    IN forward_from(rx_in, T, 0, <<row0>>)

RECURSIVE argmin_from(_, _, _)
\* np.argmin: the first index of the minimum
argmin_from(row, s, best) ==
    IF s >= NUM_STATES THEN best
    ELSE argmin_from(row, s + 1, IF row[s] < row[best] THEN s ELSE best)

\* termination forced to state 0
argmin_zero(row) == 0

argmin(row) == argmin_from(row, 1, 0)

\* a traceback step that always takes the fallback to state 0
traceback_step_fallback(tbl, t, s) ==
    [u |-> tbl[t + 1].prev_u[s], s |-> 0]

\* the body of the traceback loop: uhat[t-1] and the predecessor of s
traceback_step(tbl, t, s) ==
    [u |-> tbl[t + 1].prev_u[s],
     s |-> IF tbl[t + 1].prev[s] >= 0 THEN tbl[t + 1].prev[s] ELSE 0]

RECURSIVE traceback_from(_, _, _, _)
\* for t in range(T, 0, -1): emits uhat[t-1], steps s to its predecessor
traceback_from(tbl, t, s, uhat_acc) ==
    IF t < 1 THEN uhat_acc
    ELSE LET e == traceback_step(tbl, t, s)
         IN traceback_from(tbl, t - 1, e.s, <<e.u>> \o uhat_acc)

RECURSIVE traceback_walk(_, _, _)
\* the values s takes in the traceback loop, the one at time 0 first
traceback_walk(tbl, t, s) ==
    IF t < 1 THEN <<s>>
    ELSE Append(traceback_walk(tbl, t - 1, traceback_step(tbl, t, s).s), s)

\* viterbi_decode_hard_7_5(rx_pairs): tables, final state, the states the
\* traceback passes through and the decoded bits
viterbi_decode_hard_7_5(rx_in) ==
    LET T    == Len(rx_in) \div 2
        tbl == forward(rx_in)
        fs   == argmin(tbl[T + 1].pm)
    IN [T |-> T,
        pm |-> [t \in 0..T |-> tbl[t + 1].pm],
        prev |-> [t \in 0..T |-> tbl[t + 1].prev],
        prev_u |-> [t \in 0..T |-> tbl[t + 1].prev_u],
        final_s |-> fs,
        walk |-> traceback_walk(tbl, T, fs),
        uhat |-> traceback_from(tbl, T, fs, <<>>)]

(***************************************************************************)
(* State of the software link (simulate_ber) and of the two sequence       *)
(* benches (test_viterbi_sequence.py, test_convenc_smoke.py).              *)
(***************************************************************************)

\* the decoder has not run
no_dec == [T |-> -1, pm |-> <<>>, prev |-> <<>>, prev_u |-> <<>>,
           final_s |-> 0, walk |-> <<>>, uhat |-> <<>>]

\* payload of test_viterbi_basic and src of test_convenc_smoke
u_payload == <<1, 1, 0, 1, 1>>
u_tail == <<0, 0, 0, 0, 0>>
smoke_src == <<1, 0, 1, 1, 0, 0, 1>>

(***************************************************************************)
(* BPSK, rectangular pulse shaping and the matched filter.  Signals are    *)
(* sequences whose element i + 1 is the sample of index i.                 *)
(***************************************************************************)
\* bpsk_map(bits): 0 -> +1, 1 -> -1
bpsk_map(bits) == [i \in 1..Len(bits) |-> 1 - 2 * bits[i]]

\* upsample_rect(symbols, sps): np.repeat(symbols, sps)
upsample_rect(symbols, n) ==
    [i \in 1..(Len(symbols) * n) |-> symbols[(i - 1) \div n + 1]]

\* a noise that mirrors every sample of the symbols numbered in F and leaves
\* the other samples alone
mirror_noise(sig, F, n) ==
    [i \in 1..Len(sig) |-> IF (i - 1) \div n + 1 \in F THEN -2 * sig[i] ELSE 0]

\* add_awgn: sig + noise
add_awgn(sig, noise) == [i \in 1..Len(sig) |-> sig[i] + noise[i]]

RECURSIVE sum_between(_, _, _)
\* the sum of the samples of sig with indices lo..hi that exist
sum_between(sig, lo, hi) ==
    IF lo > hi THEN 0
    ELSE (IF lo >= 0 /\ lo < Len(sig) THEN sig[lo + 1] ELSE 0) + sum_between(sig, lo + 1, hi)

\* np.convolve(rx, np.ones(sps), mode="same") for len(rx) >= sps: the
\* middle len(rx) samples of the full convolution
convolve_same(sig, n) ==
    [j \in 1..Len(sig) |->
        LET full_idx == (j - 1) + (n - 1) \div 2
        IN sum_between(sig, full_idx - n + 1, full_idx)]

\* sampling that starts at the first sample of every symbol
centers_from_zero(len_y, n) ==
    [c \in 1..(IF len_y > 0 THEN (len_y - 1) \div n + 1 ELSE 0) |-> (c - 1) * n]

\* centers = np.arange(sps//2, len(y), sps)
centers(len_y, n) ==
    [c \in 1..(IF len_y > n \div 2 THEN (len_y - n \div 2 - 1) \div n + 1 ELSE 0) |->
        n \div 2 + (c - 1) * n]

\* matched_filter_rect(rx, sps): y, y[centers], centers
matched_filter_rect(sig, n) ==
    LET y == convolve_same(sig, n)
        cs == centers(Len(y), n)
    IN [y |-> y, samp |-> [c \in 1..Len(cs) |-> y[cs[c] + 1]], centers |-> cs]

\* hard = (samp < 0).astype(int)
hard_decide(samples) == [c \in 1..Len(samples) |-> IF samples[c] < 0 THEN 1 ELSE 0]

\* seq with the bits at the positions in F inverted
flip_at(seq, F) == [i \in 1..Len(seq) |-> IF i \in F THEN 1 - seq[i] ELSE seq[i]]

LinkInit ==
    /\ bits_tx = <<>> /\ coded = <<>> /\ ref = <<>> /\ flips = {}
    /\ dec = no_dec /\ samp = <<>>
    /\ \/ /\ bench = "link" /\ step = "payload"
          /\ payload \in BitSeqs(0, MaxPayload) /\ hard = <<>>
          /\ sps \in 1..MaxSps
       \/ /\ bench \in {"decode", "viterbi_sequence", "convenc_smoke"} /\ sps = 1
    /\ \/ bench = "link"
       \/ /\ bench = "decode" /\ step = "received"
          /\ payload = <<>>
          /\ hard \in UNION {BitSeqsOfLen(2 * T) : T \in 0..MaxT}
       \/ /\ bench = "viterbi_sequence" /\ step = "payload"
          /\ payload = u_payload /\ hard = <<>>
       \/ /\ bench = "convenc_smoke" /\ step = "payload"
          /\ payload = smoke_src /\ hard = <<>>

\* simulate_ber: bits_tx = add_tail(payload, K); coded = conv_encode_7_5(bits_tx)
LinkEncode ==
    /\ bench = "link" /\ step = "payload"
    /\ bits_tx' = add_tail(payload)
    /\ coded' = conv_encode_7_5(add_tail(payload))
    /\ step' = "coded"
    /\ UNCHANGED <<bench, payload, ref, flips, sps, samp, hard, dec>>
    /\ sweep_at_rest

\* simulate_ber: bpsk_map .. (samp < 0): the noise inverts the decisions in F
LinkChannel ==
    /\ bench = "link" /\ step = "coded"
    /\ \E F \in SUBSET (1..Len(coded)) :
          /\ Cardinality(F) <= MaxFlips
          /\ flips' = F
          /\ LET tx_sig == upsample_rect(bpsk_map(coded), sps)
                 rx_sig == add_awgn(tx_sig, mirror_noise(tx_sig, F, sps))
             IN /\ samp' = matched_filter_rect(rx_sig, sps).samp
                /\ hard' = hard_decide(matched_filter_rect(rx_sig, sps).samp)
    /\ step' = "received"
    /\ UNCHANGED <<bench, payload, bits_tx, coded, ref, sps, dec>>
    /\ sweep_at_rest

\* test_viterbi_basic: coded = enc_7_5(u_payload + u_tail), then one flip of
\* v1 in symbol index 3
SeqEncode ==
    /\ bench = "viterbi_sequence" /\ step = "payload"
    /\ bits_tx' = payload \o u_tail
    /\ ref' = enc_7_5(payload \o u_tail)
    /\ coded' = Flatten(enc_7_5(payload \o u_tail))
    /\ flips' = {2 * 3 + 1}
    /\ hard' = flip_at(Flatten(enc_7_5(payload \o u_tail)), {2 * 3 + 1})
    /\ step' = "received"
    /\ UNCHANGED <<bench, payload, sps, samp, dec>>
    /\ sweep_at_rest

\* test_convenc_smoke: ref = conv_ref(src); the encoder under test is fed src
SmokeEncode ==
    /\ bench = "convenc_smoke" /\ step = "payload"
    /\ bits_tx' = payload
    /\ ref' = conv_ref(payload)
    /\ coded' = conv_encode_7_5(payload)
    /\ step' = "coded"
    /\ UNCHANGED <<bench, payload, flips, sps, samp, hard, dec>>
    /\ sweep_at_rest

\* dec = viterbi_decode_hard_7_5(hard)
Decode ==
    /\ bench \in {"link", "decode", "viterbi_sequence"} /\ step = "received"
    /\ dec' = viterbi_decode_hard_7_5(hard)
    /\ step' = "decoded"
    /\ UNCHANGED <<bench, payload, bits_tx, coded, ref, flips, sps, samp, hard>>
    /\ sweep_at_rest

LinkNext == LinkEncode \/ LinkChannel \/ SeqEncode \/ SmokeEncode \/ Decode

(***************************************************************************)
(* The cocotb BER sweep (sim/test_ber_sweep.py): knobs, scaled down.       *)
(***************************************************************************)
\* tail / traceback length of the bench (12 in the source)
TB_LEN == 2
\* bits per trial (200 in the source)
PAYLOAD_LEN == 1
\* trials per flip probability (20 in the source)
TRIALS == 2
\* length of the calibration payload (64 in the source)
test_len == 2
\* default timeout_cycles of enc_push_bit_and_get_symbol (16 in the source)
timeout_cycles == 2
\* largest enc_latency_cycles the bench is configured with
MaxEncLatency == 1
\* most coded bits one trial's flip draws invert
MaxTrialFlips == 1

\* flip probabilities of the sweep, in percent ([0.00, 0.02, 0.05, 0.10] in the source)
P_FLIPS_source == <<0, 10>>

\* a list of flip probabilities with a negative entry
P_FLIPS_negative == <<-10, 10>>

\* a list of flip probabilities that starts with probability 1
P_FLIPS_certain == <<100, 0>>

\* values of rng.random(), in percent
RandomUnit == {0, 50}

Mappings == {"y0_is_v1", "y1_is_v1"}

\* a channel that also flips when the draw equals p
flip_bit_inclusive(b, p, r) == IF r <= p THEN XOR(b, 1) ELSE b

\* flip_bit(b, p, rng) with r the value rng.random() returns
flip_bit(b, p, r) == IF r < p THEN XOR(b, 1) ELSE b

\* the mapping branch of the encode loops: (v1, v0) from the raw pins
interpret_ignoring_mapping(mapping_arg, y0, y1) == <<y0, y1>>

interpret(mapping_arg, y0, y1) ==
    IF mapping_arg = "y0_is_v1" THEN <<y0, y1>> ELSE <<y1, y0>>

(***************************************************************************)
(* The generator rng = random.Random(rng_seed).  Its values are either     *)
(* left open (rng = -1: every value a draw can return is considered) or    *)
(* those of a seeded generator of period PrngMod.                          *)
(***************************************************************************)
PrngMod == 8

Seeds == 0..(PrngMod - 1)

\* a generator whose initial state also depends on which run it is
rng_start_per_run(seed, r) == (seed + r) % PrngMod

\* random.Random(rng_seed): the initial state is a function of the seed alone
rng_start(seed, r) == seed

\* one step of the seeded generator
rng_step(x) == (5 * x + 3) % PrngMod

RECURSIVE rng_after(_, _)
\* the generator after n draws
rng_after(x, n) == IF x = -1 \/ n = 0 THEN x ELSE rng_after(rng_step(x), n - 1)

\* the value of rng.randint(0, 1) / of rng.random(), in percent, in state x
randint_value(x) == (x \div 2) % 2
random_value(x) == (x * 100) \div PrngMod

RECURSIVE flip_sets(_, _)
\* the sets of at most n draws, out of the draws numbered in S, that fall below p
flip_sets(S, n) ==
    IF n = 0 THEN {{}}
    ELSE LET less == flip_sets(S, n - 1)
         IN less \cup {F \cup {i} : F \in less, i \in S}

\* the record of the values returned, kept for a seeded generator only
record_draws(sofar, x, values) == IF x = -1 THEN sofar ELSE sofar \o values

\* [rng.randint(0, 1) for _ in range(n)]: the lists the n draws can give
randint_draws(x, n) ==
    IF x = -1 THEN BitSeqsOfLen(n)
    ELSE {[i \in 1..n |-> randint_value(rng_after(x, i))]}

\* the values n successive calls of rng.random() can give
random_draws(x, n) ==
    IF x = -1
    THEN {[i \in 1..n |-> IF i \in F THEN 0 ELSE 50] : F \in flip_sets(1..n, MaxTrialFlips)}
    ELSE {[i \in 1..n |-> random_value(rng_after(x, i))]}

(***************************************************************************)
(* The device under test: a registered encoder with a pipeline of          *)
(* dev_enc_lat stages and a sliding-window Viterbi decoder of traceback     *)
(* depth dev_tb, both clocked by the bench.                                *)
(***************************************************************************)

\* the resets after which the encoder of the device stops answering (a device
\* fault): never (-1), from the first trial on, from the second sweep point on
DevLives == {-1, 3, 3 + TRIALS}

\* the device after reset_chain; life is the number of resets, this one
\* included, that remain before the fault (-1: none, 0: the encoder is dead)
dut_reset(lat, life) ==
    [enc_life |-> life,
     enc_reg |-> 0,
     enc_pipe |-> [i \in 1..lat |-> <<>>],
     enc_out_valid |-> 0, enc_y0 |-> 0, enc_y1 |-> 0,
     dec_pm |-> [s \in States |-> IF s = 0 THEN 0 ELSE INF],
     dec_win |-> <<>>,
     dec_bit_valid |-> 0, dec_bit_out |-> 0]

\* the encoder half at a rising edge: samples enc_in_valid / enc_bit_in
dut_enc_edge(d, wiring, in_valid, bit_in) ==
    LET e     == conv_encode_step(d.enc_reg, bit_in)
        new   == IF in_valid = 1 /\ d.enc_life # 0 THEN e.out ELSE <<>>
        queue == Append(d.enc_pipe, new)
        head  == Head(queue)
        pins  == IF wiring = "y0_is_v1" THEN head ELSE <<head[2], head[1]>>
    IN [d EXCEPT !.enc_reg = IF in_valid = 1 THEN e.state ELSE @,
                 !.enc_pipe = Tail(queue),
                 !.enc_out_valid = IF head = <<>> THEN 0 ELSE 1,
                 !.enc_y0 = IF head = <<>> THEN @ ELSE pins[1],
                 !.enc_y1 = IF head = <<>> THEN @ ELSE pins[2]]

\* the decoder half at a rising edge: samples dec_sym_valid / dec_rx_sym = {v1,v0};
\* it keeps the path metrics and the survivor decisions of the last tb + 1
\* symbols, and once these are full emits the oldest bit of the best survivor
dut_dec_edge(d, tb, sym_valid, rx_sym) ==
    LET row  == visit_states(0, fresh_row, d.dec_pm, rx_sym \div 2, rx_sym % 2)
        all  == Append(d.dec_win, [prev |-> row.prev, prev_u |-> row.prev_u])
        win  == IF Len(all) > tb + 1 THEN Tail(all) ELSE all
        tbl  == <<fresh_row>> \o [i \in 1..Len(win) |->
                    [pm |-> row.pm, prev |-> win[i].prev, prev_u |-> win[i].prev_u]]
        bits == traceback_from(tbl, Len(win), argmin(row.pm), <<>>)
    IN IF sym_valid = 0 THEN [d EXCEPT !.dec_bit_valid = 0]
       ELSE IF Len(win) <= tb
            THEN [d EXCEPT !.dec_pm = row.pm, !.dec_win = win, !.dec_bit_valid = 0]
            ELSE [d EXCEPT !.dec_pm = row.pm, !.dec_win = win,
                           !.dec_bit_valid = 1, !.dec_bit_out = bits[1]]

\* one rising edge of dut.clk with the pins the bench drives
dut_edge(d, wiring, tb, in_valid, bit_in, sym_valid, rx_sym) ==
    dut_dec_edge(dut_enc_edge(d, wiring, in_valid, bit_in), tb, sym_valid, rx_sym)

(***************************************************************************)
(* State of the bench test_ber_sweep.                                      *)
(***************************************************************************)

\* no call of enc_push_bit_and_get_symbol has been made
no_call == [status |-> "idle", edges |-> 0, lat_left |-> 0, polls_left |-> 0,
            ret |-> <<>>, sampled |-> <<>>]

\* decided[-n:]
last_slice(seq, n) ==
    IF n = 0 \/ n >= Len(seq) THEN seq ELSE SubSeq(seq, Len(seq) - n + 1, Len(seq))

\* a count of the positions where the two lists agree
count_matches(recovered, pl) ==
    Cardinality({i \in 1..Len(pl) : i <= Len(recovered) /\ recovered[i] = pl[i]})

\* sum(a != b for a, b in zip(recovered, payload))
count_errors(recovered, pl) ==
    Cardinality({i \in 1..Len(pl) : i <= Len(recovered) /\ recovered[i] # pl[i]})

SweepInit ==
    /\ hw_pc = "calibrate" /\ error = "none" /\ log = <<>> /\ rng_draws = 0
    /\ rng = rng_start(rng_seed, run) /\ drawn = <<>>
    /\ ENC_LATENCY \in 0..MaxEncLatency
    /\ pass = "none" /\ pass_mapping = "none"
    /\ hw_payload = <<>> /\ in_stream = <<>> /\ k = 1
    /\ hw_coded = <<>> /\ noisy = <<>> /\ decided = <<>> /\ dec_samples = <<>>
    /\ call = no_call
    /\ errs_a = -1 /\ got_a = -1 /\ errs_b = -1 /\ got_b = -1 /\ mapping = "none"
    /\ p_idx = 0 /\ trial = 0 /\ bit_errors = 0 /\ bit_total = 0
    /\ rows = <<>> /\ csv = <<>>
    /\ dev_wiring \in Mappings
    /\ dev_enc_lat \in 0..timeout_cycles
    /\ dev_tb \in {TB_LEN, TB_LEN + 1}
    /\ \E life \in DevLives : dut = dut_reset(dev_enc_lat, life)

\* calibrate_mapping: payload = [rng.randint(0, 1) for _ in range(test_len)]
CalPayload ==
    /\ hw_pc = "calibrate"
    /\ hw_payload' \in randint_draws(rng, test_len)
    /\ rng' = rng_after(rng, test_len)
    /\ drawn' = record_draws(drawn, rng, hw_payload')
    /\ rng_draws' = rng_draws + test_len
    /\ pass' = "cal_a" /\ pass_mapping' = "y0_is_v1"
    /\ hw_pc' = "reset"
    /\ UNCHANGED <<error, log, ENC_LATENCY, P_FLIPS, in_stream, k, hw_coded, noisy, decided, dec_samples, call, calvars, pointvars, devvars>>
    /\ link_at_rest

\* reset_chain(dut), and for a calibration pass in_stream = payload + [0] * TB_LEN
ResetChain ==
    /\ hw_pc = "reset"
    /\ dut' = dut_reset(dev_enc_lat,
                         IF dut.enc_life > 0 THEN dut.enc_life - 1 ELSE dut.enc_life)
    /\ hw_coded' = <<>> /\ noisy' = <<>> /\ decided' = <<>> /\ dec_samples' = <<>> /\ k' = 1
    /\ call' = no_call
    /\ IF pass = "trial"
       THEN /\ hw_pc' = "payload"
            /\ UNCHANGED <<in_stream>>
       ELSE /\ hw_pc' = "enc_drive"
            /\ in_stream' = hw_payload \o [i \in 1..TB_LEN |-> 0]
    /\ UNCHANGED <<error, log, rng, drawn, rng_draws, ENC_LATENCY, P_FLIPS, pass, pass_mapping, hw_payload, calvars, pointvars, dev_wiring, dev_enc_lat, dev_tb>>
    /\ link_at_rest

\* a trial: payload = [rng.randint(0, 1) for _ in range(PAYLOAD_LEN)]
GenPayload ==
    /\ hw_pc = "payload"
    /\ \E pl \in randint_draws(rng, PAYLOAD_LEN) :
          /\ hw_payload' = pl
          /\ in_stream' = pl \o [i \in 1..TB_LEN |-> 0]
    /\ rng' = rng_after(rng, PAYLOAD_LEN)
    /\ drawn' = record_draws(drawn, rng, hw_payload')
    /\ rng_draws' = rng_draws + PAYLOAD_LEN
    /\ hw_pc' = "enc_drive"
    /\ UNCHANGED <<error, log, ENC_LATENCY, P_FLIPS, pass, pass_mapping, k, hw_coded, noisy,
                   decided, dec_samples, call, calvars, pointvars, devvars>>
    /\ link_at_rest

(***************************************************************************)
(* enc_push_bit_and_get_symbol(dut, u, enc_latency_cycles, timeout_cycles). *)
(* Every action is one RisingEdge(dut.clk) with the code up to the next    *)
(* await.                                                                  *)
(***************************************************************************)
\* an idle edge: no valid flag driven
idle_edge(d) == dut_edge(d, dev_wiring, dev_tb, 0, 0, 0, 0)

\* the poll loop without the test of enc_out_valid
poll_check_no_valid(d, polls) == IF polls = 0 THEN "timeout" ELSE "return"

\* the head of one iteration of the poll loop, polls iterations remaining:
\* loop exhausted, enc_out_valid seen, or await the next edge
poll_check(d, polls) ==
    IF polls = 0 THEN "timeout"
    ELSE IF d.enc_out_valid = 1 THEN "return"
    ELSE "wait"

\* the code of the call after an edge that leaves polls iterations of the poll
\* loop, up to the caller's coded.append and the next await
EncContinue(d, edges, polls) ==
    LET outcome == poll_check(d, polls)
        last    == k = Len(in_stream)
        pair    == interpret(IF pass = "trial" THEN mapping ELSE pass_mapping,
                             d.enc_y0, d.enc_y1)
    IN /\ dut' = d
       /\ call' = [status |-> CASE outcome = "return" -> "returned"
                              [] outcome = "timeout" -> "timeout"
                              [] OTHER -> "polling",
                   edges |-> edges, lat_left |-> 0, polls_left |-> polls,
                   ret |-> IF outcome = "return" THEN <<d.enc_y0, d.enc_y1>> ELSE <<>>,
                   sampled |-> IF outcome = "return"
                               THEN <<d.enc_out_valid, d.enc_y0, d.enc_y1>> ELSE <<>>]
       /\ hw_pc' = CASE outcome = "timeout" -> "failed"
                   [] outcome = "wait" -> "enc_poll"
                   [] outcome = "return" /\ ~last -> "enc_drive"
                   [] outcome = "return" /\ last /\ pass = "trial" -> "flips"
                   [] OTHER -> "dec_feed"
       /\ error' = IF outcome = "timeout" THEN "Timeout waiting for enc_out_valid"
                   ELSE error
       /\ hw_coded' = IF outcome = "return" THEN Append(hw_coded, pair) ELSE hw_coded
       /\ k' = IF outcome = "return" THEN (IF last THEN 1 ELSE k + 1) ELSE k
       /\ noisy' = IF outcome = "return" /\ last /\ pass # "trial"
                   THEN Append(hw_coded, pair) ELSE noisy

\* enc_in_valid = 1, enc_bit_in = u, await RisingEdge, enc_in_valid = 0
EncDrive ==
    /\ hw_pc = "enc_drive"
    /\ LET d == dut_edge(dut, dev_wiring, dev_tb, 1, in_stream[k], 0, 0)
       IN IF ENC_LATENCY > 0
          THEN /\ dut' = d
               /\ call' = [no_call EXCEPT !.status = "latency", !.edges = 1,
                                          !.lat_left = ENC_LATENCY]
               /\ hw_pc' = "enc_latency"
               /\ UNCHANGED <<error, hw_coded, k, noisy>>
          ELSE EncContinue(d, 1, timeout_cycles)
    /\ UNCHANGED <<log, rng, drawn, rng_draws, ENC_LATENCY, P_FLIPS, pass, pass_mapping, hw_payload,
                   in_stream, decided, dec_samples, calvars, pointvars,
                   dev_wiring, dev_enc_lat, dev_tb>>
    /\ link_at_rest

\* for _ in range(enc_latency_cycles): await RisingEdge
EncLatencyEdge ==
    /\ hw_pc = "enc_latency"
    /\ LET d == idle_edge(dut)
       IN IF call.lat_left > 1
          THEN /\ dut' = d
               /\ call' = [call EXCEPT !.edges = @ + 1, !.lat_left = @ - 1]
               /\ UNCHANGED <<hw_pc, error, hw_coded, k, noisy>>
          ELSE EncContinue(d, call.edges + 1, timeout_cycles)
    /\ UNCHANGED <<log, rng, drawn, rng_draws, ENC_LATENCY, P_FLIPS, pass, pass_mapping, hw_payload,
                   in_stream, decided, dec_samples, calvars, pointvars,
                   dev_wiring, dev_enc_lat, dev_tb>>
    /\ link_at_rest

\* the await RisingEdge at the end of an iteration of the poll loop
EncPollEdge ==
    /\ hw_pc = "enc_poll"
    /\ EncContinue(idle_edge(dut), call.edges + 1, call.polls_left - 1)
    /\ UNCHANGED <<log, rng, drawn, rng_draws, ENC_LATENCY, P_FLIPS, pass, pass_mapping, hw_payload,
                   in_stream, decided, dec_samples, calvars, pointvars,
                   dev_wiring, dev_enc_lat, dev_tb>>
    /\ link_at_rest

(***************************************************************************)
(* The channel, the decoder feed and the drain of one pass.                *)
(***************************************************************************)
\* noisy = [(flip_bit(v1, p, rng), flip_bit(v0, p, rng)) for (v1, v0) in coded]
\* with the 2 * len(coded) values of rng.random() in draw order
apply_flips(coded_pairs, p, rs) ==
    [t \in 1..Len(coded_pairs) |->
        <<flip_bit(coded_pairs[t][1], p, rs[2 * t - 1]),
          flip_bit(coded_pairs[t][2], p, rs[2 * t])>>]

\* a channel that leaves rng alone when the flip probability is not positive
after_flips_lazy(x, coded_pairs, p) ==
    IF p <= 0 THEN x ELSE rng_after(x, 2 * Len(coded_pairs))

\* rng after the channel: flip_bit calls rng.random() once for every coded
\* bit, before it looks at p
after_flips(x, coded_pairs, p) == rng_after(x, 2 * Len(coded_pairs))

ApplyFlips ==
    /\ hw_pc = "flips"
    /\ \E rs \in random_draws(rng, 2 * Len(hw_coded)) :
          /\ noisy' = apply_flips(hw_coded, P_FLIPS[p_idx], rs)
          /\ drawn' = record_draws(drawn, rng, rs)
    /\ rng' = after_flips(rng, hw_coded, P_FLIPS[p_idx])
    /\ rng_draws' = rng_draws + 2 * Len(hw_coded)
    /\ hw_pc' = "dec_feed" /\ k' = 1
    /\ UNCHANGED <<error, log, ENC_LATENCY, P_FLIPS, pass, pass_mapping, hw_payload, in_stream,
                   hw_coded, decided, dec_samples, call, calvars, pointvars, devvars>>
    /\ link_at_rest

\* a capture that does not test dec_bit_valid
capture_unconditional(dec_list, d) == Append(dec_list, d.dec_bit_out)

\* if int(dut.dec_bit_valid.value): decided.append(int(dut.dec_bit_out.value))
capture(dec_list, d) ==
    IF d.dec_bit_valid = 1 THEN Append(dec_list, d.dec_bit_out) ELSE dec_list

\* the decoder's output pins as the bench reads them after an edge
sample(d) == <<d.dec_bit_valid, d.dec_bit_out>>

RECURSIVE feed_from(_, _, _)
\* for (v1, v0) in noisy: dec_rx_sym = (v1 << 1) | v0, dec_sym_valid = 1,
\* await RisingEdge, dec_sym_valid = 0, capture
feed_from(acc, syms, i) ==
    IF i > Len(syms) THEN acc
    ELSE LET e == dut_edge(acc.dut, dev_wiring, dev_tb, 0, 0, 1,
                           2 * syms[i][1] + syms[i][2])
         IN feed_from([dut |-> e, decided |-> capture(acc.decided, e),
                       samples |-> Append(acc.samples, sample(e))], syms, i + 1)

RECURSIVE drain_from(_, _)
\* for _ in range(2 * TB_LEN): await RisingEdge, capture
drain_from(acc, n) ==
    IF n <= 0 THEN acc
    ELSE LET e == idle_edge(acc.dut)
         IN drain_from([dut |-> e, decided |-> capture(acc.decided, e),
                        samples |-> Append(acc.samples, sample(e))], n - 1)

\* step 4 of a pass: the decoder is fed every symbol of noisy, then the
\* drain loop of 2 * TB_LEN cycles
DecFeed ==
    /\ link_at_rest
    /\ hw_pc = "dec_feed"
    /\ LET fed     == feed_from([dut |-> dut, decided |-> <<>>, samples |-> <<>>],
                                noisy, 1)
           drained == drain_from(fed, 2 * TB_LEN)
       IN /\ dut' = drained.dut /\ decided' = drained.decided
          /\ dec_samples' = drained.samples
    /\ hw_pc' = "compare"
    /\ UNCHANGED <<error, log, rng, drawn, rng_draws, ENC_LATENCY, P_FLIPS, pass, pass_mapping, hw_payload,
                   in_stream, k, hw_coded, noisy, call, calvars, pointvars,
                   dev_wiring, dev_enc_lat, dev_tb>>

(***************************************************************************)
(* The end of a pass: _one_pass_errors returns, or the trial accumulates.  *)
(***************************************************************************)
\* the return value (errs, recovered_len) of _one_pass_errors
one_pass_result(dec_list, pl) ==
    LET recovered == last_slice(dec_list, Len(pl))
    IN IF Len(recovered) # Len(pl) THEN <<Len(pl), Len(recovered)>>
       ELSE <<count_errors(recovered, pl), Len(recovered)>>

CalPassEnd ==
    /\ hw_pc = "compare" /\ pass \in {"cal_a", "cal_b"}
    /\ LET res == one_pass_result(decided, hw_payload)
       IN IF pass = "cal_a"
          THEN /\ errs_a' = res[1] /\ got_a' = res[2]
               /\ pass' = "cal_b" /\ pass_mapping' = "y1_is_v1"
               /\ hw_pc' = "reset"
               /\ UNCHANGED <<errs_b, got_b>>
          ELSE /\ errs_b' = res[1] /\ got_b' = res[2]
               /\ hw_pc' = "cal_select"
               /\ UNCHANGED <<errs_a, got_a, pass, pass_mapping>>
    /\ in_stream' = <<>> /\ hw_coded' = <<>> /\ noisy' = <<>> /\ decided' = <<>> /\ dec_samples' = <<>>
    /\ call' = no_call
    /\ UNCHANGED <<error, log, rng, drawn, rng_draws, ENC_LATENCY, P_FLIPS, hw_payload, k, mapping,
                   pointvars, devvars>>
    /\ link_at_rest

\* the choice calibrate_mapping returns, with the tie going to the second mapping
select_mapping_strict(ea, eb) == IF ea < eb THEN "y0_is_v1" ELSE "y1_is_v1"

\* the choice calibrate_mapping returns
select_mapping(ea, eb) == IF ea <= eb THEN "y0_is_v1" ELSE "y1_is_v1"

\* the three dut._log.info calls of calibrate_mapping
cal_log(ea, eb) ==
    <<[level |-> "info", tag |-> "CAL y0_is_v1"],
      [level |-> "info", tag |-> "CAL y1_is_v1"],
      [level |-> "info", tag |-> "CAL Selected mapping"]>>

\* calibrate_mapping logs both counts and returns, which ends its locals;
\* rows = []
CalSelect ==
    /\ hw_pc = "cal_select"
    /\ log' = log \o cal_log(errs_a, errs_b)
    /\ mapping' = select_mapping(errs_a, errs_b)
    /\ errs_a' = -1 /\ got_a' = -1 /\ errs_b' = -1 /\ got_b' = -1
    /\ hw_payload' = <<>>
    /\ p_idx' = 1 /\ rows' = <<>>
    /\ hw_pc' = "point"
    /\ UNCHANGED <<error, rng, drawn, rng_draws, ENC_LATENCY, P_FLIPS, pass, pass_mapping, in_stream, k,
                   hw_coded, noisy, decided, dec_samples, call, trial, bit_errors, bit_total, csv,
                   devvars>>
    /\ link_at_rest

\* for p in P_FLIPS: bit_errors = 0; bit_total = 0
PointStart ==
    /\ hw_pc = "point"
    /\ IF p_idx > Len(P_FLIPS)
       THEN /\ hw_pc' = "write_csv"
            /\ UNCHANGED <<pass, bit_errors, bit_total, trial>>
       ELSE /\ bit_errors' = 0 /\ bit_total' = 0 /\ trial' = 0
            /\ pass' = "trial"
            /\ hw_pc' = IF TRIALS > 0 THEN "reset" ELSE "row"
    /\ UNCHANGED <<error, log, rng, drawn, rng_draws, ENC_LATENCY, P_FLIPS, pass_mapping, hw_payload,
                   in_stream, k, hw_coded, noisy, decided, dec_samples, call, calvars,
                   p_idx, rows, csv, devvars>>
    /\ link_at_rest

\* step 5 of a trial: compare the last PAYLOAD_LEN bits, accumulate; the
\* names bound in the iteration are not read again before they are rebound
TrialEnd ==
    /\ hw_pc = "compare" /\ pass = "trial"
    /\ LET recovered == last_slice(decided, PAYLOAD_LEN)
       IN IF Len(recovered) # PAYLOAD_LEN
          THEN /\ error' = "Not enough decided bits"
               /\ hw_pc' = "failed"
               /\ UNCHANGED <<bit_errors, bit_total, trial, hw_payload, in_stream,
                              hw_coded, noisy, decided, dec_samples, call>>
          ELSE /\ bit_errors' = bit_errors + count_errors(recovered, hw_payload)
               /\ bit_total' = bit_total + PAYLOAD_LEN
               /\ trial' = trial + 1
               /\ hw_pc' = IF trial + 1 < TRIALS THEN "reset" ELSE "row"
               /\ hw_payload' = <<>> /\ in_stream' = <<>> /\ hw_coded' = <<>>
               /\ noisy' = <<>> /\ decided' = <<>> /\ dec_samples' = <<>> /\ call' = no_call
               /\ UNCHANGED error
    /\ UNCHANGED <<log, rng, drawn, rng_draws, ENC_LATENCY, P_FLIPS, pass, pass_mapping, k, calvars, p_idx,
                   rows, csv, devvars>>
    /\ link_at_rest

\* ber = ..., dut._log.info, rows.append({...})
EmitRow ==
    /\ hw_pc = "row"
    /\ log' = Append(log, [level |-> "info", tag |-> "BER"])
    /\ rows' = Append(rows,
                  [p_flip |-> P_FLIPS[p_idx],
                   BER_hw |-> IF bit_total # 0 THEN <<bit_errors, bit_total>> ELSE <<0, 1>>,
                   errors |-> bit_errors,
                   total_bits |-> bit_total,
                   trials |-> TRIALS,
                   payload_len |-> PAYLOAD_LEN,
                   tb_len |-> TB_LEN,
                   mapping |-> mapping])
    /\ p_idx' = p_idx + 1
    /\ hw_pc' = "point"
    /\ UNCHANGED <<error, rng, drawn, rng_draws, ENC_LATENCY, P_FLIPS, passvars, call, calvars, trial,
                   bit_errors, bit_total, csv, devvars>>
    /\ link_at_rest

\* the CSV is written from rows
WriteCsv ==
    /\ hw_pc = "write_csv"
    /\ csv' = rows
    /\ log' = Append(log, [level |-> "info", tag |-> "BER SUMMARY CSV written"])
    /\ hw_pc' = "done"
    /\ UNCHANGED <<error, rng, drawn, rng_draws, ENC_LATENCY, P_FLIPS, passvars, call, calvars, p_idx, trial,
                   bit_errors, bit_total, rows, devvars>>
    /\ link_at_rest

SweepNext ==
    \/ CalPayload \/ ResetChain \/ GenPayload
    \/ EncDrive \/ EncLatencyEdge \/ EncPollEdge
    \/ ApplyFlips \/ DecFeed
    \/ CalPassEnd \/ CalSelect \/ PointStart \/ TrialEnd \/ EmitRow \/ WriteCsv

(***************************************************************************)
(* Specifications: the software link with the benches' sequences, and the  *)
(* hardware sweep.  Each leaves the other's variables at rest.             *)
(***************************************************************************)

\* the sweep's variables while the software link runs
SweepIdle ==
    /\ hw_pc = "off" /\ error = "none" /\ log = <<>> /\ rng_draws = 0
    /\ rng = -1 /\ drawn = <<>>
    /\ ENC_LATENCY = 0
    /\ pass = "none" /\ pass_mapping = "none"
    /\ hw_payload = <<>> /\ in_stream = <<>> /\ k = 1
    /\ hw_coded = <<>> /\ noisy = <<>> /\ decided = <<>> /\ dec_samples = <<>>
    /\ call = no_call
    /\ errs_a = -1 /\ got_a = -1 /\ errs_b = -1 /\ got_b = -1 /\ mapping = "none"
    /\ p_idx = 0 /\ trial = 0 /\ bit_errors = 0 /\ bit_total = 0
    /\ rows = <<>> /\ csv = <<>>
    /\ dev_wiring = "y0_is_v1" /\ dev_enc_lat = 0 /\ dev_tb = TB_LEN
    /\ dut = dut_reset(0, -1)

\* the link's variables while the sweep runs
LinkIdle ==
    /\ bench = "ber_sweep" /\ step = "off"
    /\ payload = <<>> /\ bits_tx = <<>> /\ coded = <<>> /\ ref = <<>>
    /\ flips = {} /\ sps = 1 /\ samp = <<>> /\ hard = <<>> /\ dec = no_dec

\* one run, the values of rng left open
RunOpen == rng_seed = -1 /\ run = 1 /\ first_out = <<>>

\* the knob P_FLIPS as the source sets it
KnobsAsWritten == P_FLIPS = P_FLIPS_source

InitLink == RunOpen /\ KnobsAsWritten /\ TrellisInit /\ LinkInit /\ SweepIdle

InitSweep == RunOpen /\ KnobsAsWritten /\ TrellisInit /\ SweepInit /\ LinkIdle

SpecLink == InitLink /\ [][LinkNext]_vars

SpecSweep == InitSweep /\ [][SweepNext]_vars

\* the sweep with the clock of cocotb's Clock coroutine running: a call that
\* awaits RisingEdge(dut.clk) is resumed
SpecSweepClocked == SpecSweep /\ WF_vars(EncLatencyEdge) /\ WF_vars(EncPollEdge)

\* what a run of test_ber_sweep leaves behind: how it ended, its log and CSV
\* rows, and what it drew from rng
outcome ==
    [pc |-> hw_pc, error |-> error, log |-> log, mapping |-> mapping,
     rows |-> rows, csv |-> csv, drawn |-> drawn, rng_draws |-> rng_draws]

\* the test is run again on the same device: every local of test_ber_sweep
\* is created anew, rng = random.Random(rng_seed) among them
Restart ==
    /\ run = 1 /\ rng_seed # -1
    /\ hw_pc \in {"done", "failed"}
    /\ first_out' = <<outcome>>
    /\ run' = 2
    /\ hw_pc' = "calibrate" /\ error' = "none" /\ log' = <<>> /\ rng_draws' = 0
    /\ rng' = rng_start(rng_seed, run') /\ drawn' = <<>>
    /\ pass' = "none" /\ pass_mapping' = "none"
    /\ hw_payload' = <<>> /\ in_stream' = <<>> /\ k' = 1
    /\ hw_coded' = <<>> /\ noisy' = <<>> /\ decided' = <<>> /\ dec_samples' = <<>>
    /\ call' = no_call
    /\ errs_a' = -1 /\ got_a' = -1 /\ errs_b' = -1 /\ got_b' = -1 /\ mapping' = "none"
    /\ p_idx' = 0 /\ trial' = 0 /\ bit_errors' = 0 /\ bit_total' = 0
    /\ rows' = <<>> /\ csv' = <<>>
    /\ UNCHANGED <<trellisvars, linkvars, rng_seed, ENC_LATENCY, P_FLIPS, devvars>>

\* two runs with the knob rng_seed set, on a device without the encoder fault
InitTwin ==
    /\ rng_seed \in Seeds /\ run = 1 /\ first_out = <<>>
    /\ KnobsAsWritten
    /\ TrellisInit /\ SweepInit /\ LinkIdle
    /\ dut.enc_life = -1

TwinNext == SweepNext \/ Restart

SpecTwin == InitTwin /\ [][TwinNext]_vars

\* one seeded run with the knob P_FLIPS edited, on a device without the
\* encoder fault
InitKnobs ==
    /\ rng_seed \in Seeds /\ run = 1 /\ first_out = <<>>
    /\ P_FLIPS \in {P_FLIPS_source, P_FLIPS_negative, P_FLIPS_certain}
    /\ TrellisInit /\ SweepInit /\ LinkIdle
    /\ dut.enc_life = -1

SpecKnobs == InitKnobs /\ [][SweepNext]_vars

Init == InitLink \/ InitSweep

Next == LinkNext \/ SweepNext

Spec == Init /\ [][Next]_vars

(***************************************************************************)
(* Properties of the software link.                                        *)
(***************************************************************************)
\* dec[:len(payload)] of simulate_ber
dec_payload == SubSeq(dec.uhat, 1, Len(payload))

\* the last n elements of seq (seq[-n:] for n > 0)
last_n(seq, n) == SubSeq(seq, (IF Len(seq) > n THEN Len(seq) - n ELSE 0) + 1, Len(seq))

\* number of positions in which two sequences of equal length differ
hamming(a, b) == Cardinality({i \in 1..Len(a) : a[i] # b[i]})

\* a noiseless transmission of the software link has been decoded
noiseless_decoded == bench = "link" /\ step = "decoded" /\ flips = {}

\* C1 as stated: over a zero-error channel the decoder output of
\* encode(add_tail(B)) is B itself, for every payload B.
C1_roundtrip_exact == noiseless_decoded => dec.uhat = payload

\* C1 amended: over a zero-error channel the decoder returns add_tail(B),
\* so its first len(B) bits (dec[:len(payload)]) are B.
C1_roundtrip_payload ==
    noiseless_decoded => /\ dec.uhat = add_tail(payload)
                         /\ dec_payload = payload

C1_witness == noiseless_decoded /\ Len(payload) >= 2 /\ 1 \in {payload[i] : i \in 1..Len(payload)}

\* C2: with exactly one coded bit of encode(add_tail(B)) inverted, the
\* decoder still recovers the payload B.
C2_single_flip ==
    (bench = "link" /\ step = "decoded" /\ Cardinality(flips) = 1)
        => dec_payload = payload

\* a flip in the last symbol of a non-trivial payload has been decoded
C2_witness ==
    /\ bench = "link" /\ step = "decoded" /\ Len(payload) >= 2
    /\ flips = {Len(coded)} /\ payload[Len(payload)] = 1

RECURSIVE scenario_b_recursion(_, _, _, _, _)
\* the recursion of scenario B read as pairs (v1, v0):
\* v0 = u (+) d1 (+) d0, v1 = u (+) d0, then d0 <- d1, d1 <- u
scenario_b_recursion(bits, i, d1, d0, out) ==
    IF i > Len(bits) THEN out
    ELSE LET u  == bits[i]
             v0 == XOR(XOR(u, d1), d0)
             v1 == XOR(u, d0)
         IN scenario_b_recursion(bits, i + 1, u, d1, Append(out, <<v1, v0>>))

\* C4 as stated: the encoder's (v1, v0) pairs for [1,0,1,1,0,0,1] are those of
\* the recursion v0 = u (+) d1 (+) d0, v1 = u (+) d0.
C4_pairs_as_stated ==
    (bench = "convenc_smoke" /\ step = "coded")
        => Pairs(coded) = scenario_b_recursion(payload, 1, 0, 0, <<>>)

\* C4 amended: the encoder's (v1, v0) pairs for [1,0,1,1,0,0,1] are, pair by
\* pair, the (y0, y1) pairs of conv_ref: v1 = u (+) d1 (+) d0, v0 = u (+) d0.
C4_pairs_conv_ref ==
    (bench = "convenc_smoke" /\ step = "coded")
        => /\ Len(ref) = 7
           /\ Pairs(coded) = ref

C4_witness == bench = "convenc_smoke" /\ step = "coded" /\ payload = smoke_src

\* Hamming distance between the encoding of the inputs u and the received pairs
path_distance(u, rx_in) == hamming(conv_encode_7_5(u), SubSeq(rx_in, 1, 2 * Len(u)))

\* C5: the decoder returns T bits whose encoding from the zero state is at
\* minimum Hamming distance from the received pairs among all 2^T inputs,
\* and that distance is pm[T][finalState].
C5_maximum_likelihood ==
    step = "decoded" =>
        /\ Len(dec.uhat) = dec.T
        /\ dec.T = Len(hard) \div 2
        /\ \A u \in BitSeqsOfLen(dec.T) :
              path_distance(dec.uhat, hard) <= path_distance(u, hard)
        /\ path_distance(dec.uhat, hard) = dec.pm[dec.T][dec.final_s]

\* a received sequence that is no code word, with two equally close inputs
C5_witness ==
    /\ step = "decoded" /\ dec.T >= 3
    /\ path_distance(dec.uhat, hard) >= 2
    /\ \E u \in BitSeqsOfLen(dec.T) :
          u # dec.uhat /\ path_distance(u, hard) = path_distance(dec.uhat, hard)

\* C6: every state of the trellis has exactly the two outgoing edges u = 0 and
\* u = 1, both to valid states, and the two next states differ only in the
\* bit that holds the input (the lowest).
C6_trellis_well_formed ==
    /\ DOMAIN NEXT_STATE = 0..(NUM_STATES - 1)
    /\ DOMAIN OUT_BITS = 0..(NUM_STATES - 1)
    /\ \A s \in 0..(NUM_STATES - 1) :
          /\ DOMAIN NEXT_STATE[s] = {0, 1}
          /\ DOMAIN OUT_BITS[s] = {0, 1}
          /\ \A u \in {0, 1} :
                /\ NEXT_STATE[s][u] \in 0..(NUM_STATES - 1)
                /\ NEXT_STATE[s][u] % 2 = u
          /\ NEXT_STATE[s][0] \div 2 = NEXT_STATE[s][1] \div 2
          /\ NEXT_STATE[s][0] # NEXT_STATE[s][1]

\* the decoder has walked the trellis far enough to leave every state by
\* both of its edges
C6_witness ==
    /\ step = "decoded" /\ dec.T >= 3
    /\ \A s \in States : dec.pm[dec.T - 1][s] < INF

(***************************************************************************)
(* Properties of the calibration and of the encoder handshake.             *)
(***************************************************************************)
\* both passes of calibrate_mapping have returned
cal_passes_done == errs_a >= 0 /\ errs_b >= 0

\* the device decodes with the traceback depth the bench assumes
dev_matches_bench == dev_tb = TB_LEN

\* C7 as stated: against a correctly wired device and without flips, exactly
\* one of the two interpretations yields zero bit errors, whatever the payload.
C7_exactly_one_zero ==
    (cal_passes_done /\ dev_matches_bench)
        => ((errs_a = 0 /\ errs_b # 0) \/ (errs_a # 0 /\ errs_b = 0))

\* C7 amended: against a correctly wired device and without flips, the
\* interpretation that matches the device's wiring yields zero bit errors over
\* all test_len bits, so at least one of the two does; the other one may
\* yield zero as well (it does for the all-zero payload).
C7_matching_is_zero ==
    (cal_passes_done /\ dev_matches_bench)
        => /\ dev_wiring = "y0_is_v1" => (errs_a = 0 /\ got_a = test_len)
           /\ dev_wiring = "y1_is_v1" => (errs_b = 0 /\ got_b = test_len)

\* both passes have run on a device wired y1 = v1 with a payload the wrong
\* interpretation does not survive
C7_witness ==
    /\ cal_passes_done /\ dev_matches_bench
    /\ dev_wiring = "y1_is_v1" /\ errs_a > 0 /\ errs_b = 0

\* C8: when both interpretations produce a nonzero error count, a warning is
\* logged before the sweep proceeds with the selected interpretation.
C8_warning_logged ==
    [][(hw_pc = "cal_select" /\ errs_a > 0 /\ errs_b > 0)
          => \E i \in 1..Len(log') : log'[i].level = "warning"]_vars

\* the pins the device presents for the i-th bit of in_stream
device_pins(i) ==
    LET pr == Pairs(conv_encode_7_5(in_stream))[i]
    IN IF dev_wiring = "y0_is_v1" THEN pr ELSE <<pr[2], pr[1]>>

\* the selected mapping interprets every symbol of a trial and is echoed in
\* every row and in the CSV
mapping_in_use ==
    /\ (pass = "trial" /\ hw_pc \in {"enc_drive", "enc_latency", "enc_poll", "flips",
                                          "dec_feed", "compare"}) =>
          \A i \in 1..Len(hw_coded) :
             /\ mapping = "y0_is_v1" => hw_coded[i] = device_pins(i)
             /\ mapping = "y1_is_v1" => hw_coded[i] = <<device_pins(i)[2], device_pins(i)[1]>>
    /\ \A i \in 1..Len(rows) : mapping # "none" /\ rows[i].mapping = mapping
    /\ \A i \in 1..Len(csv) : csv[i].mapping = mapping

\* C9: calibrate_mapping returns the interpretation with strictly fewer
\* errors and the first one on a tie; that mapping stays unchanged, interprets
\* every symbol of every trial and is echoed in every row.
C9_selection ==
    /\ [][hw_pc = "cal_select" =>
            /\ errs_a < errs_b => mapping' = "y0_is_v1"
            /\ errs_b < errs_a => mapping' = "y1_is_v1"
            /\ errs_a = errs_b => mapping' = "y0_is_v1"]_vars
    /\ [][mapping # "none" => mapping' = mapping]_vars
    /\ []mapping_in_use

\* a sweep that selected the second interpretation has written all its rows
C9_witness ==
    /\ hw_pc = "done" /\ dev_wiring = "y1_is_v1" /\ mapping = "y1_is_v1"
    /\ Len(csv) = Len(P_FLIPS)

\* the edge count and the outcome of the running or last call
call_within_bound ==
    /\ call.edges <= 1 + ENC_LATENCY + timeout_cycles
    /\ call.status \in {"latency", "polling"} =>
          /\ hw_pc \in {"enc_latency", "enc_poll"}
          /\ call.edges < 1 + ENC_LATENCY + timeout_cycles
    /\ call.status = "returned" =>
          /\ call.sampled[1] = 1
          /\ call.ret = <<call.sampled[2], call.sampled[3]>>
    /\ call.status = "timeout" =>
          /\ hw_pc = "failed" /\ error = "Timeout waiting for enc_out_valid"
          /\ call.edges = 1 + ENC_LATENCY + timeout_cycles
    /\ hw_pc \in {"enc_latency", "enc_poll"} => call.status \in {"latency", "polling"}

\* a call is waiting for an edge / the call has returned or raised
call_waiting == call.status \in {"latency", "polling"}
call_ended == call.status \in {"returned", "timeout"}

\* C10: a call of enc_push_bit_and_get_symbol takes at most
\* 1 + enc_latency_cycles + timeout_cycles clock edges; it ends by returning
\* the pins of a cycle on which enc_out_valid was 1 or by the timeout error,
\* and with a running clock it always ends.
C10_bounded_handshake == []call_within_bound /\ (call_waiting ~> call_ended)

\* a call that waited through the latency loop and the poll loop and returned
\* on its last chance
C10_witness ==
    /\ call.status = "returned" /\ ENC_LATENCY >= 1
    /\ call.edges = ENC_LATENCY + timeout_cycles

\* a call that timed out
C10_timeout_reached == call.status = "timeout"

(***************************************************************************)
(* Failures of a pass: timeout of the encoder handshake, short output.     *)
(***************************************************************************)
\* the AssertionError of enc_push_bit_and_get_symbol ended a sweep trial
trial_timed_out ==
    pass = "trial" /\ error = "Timeout waiting for enc_out_valid"

\* C11: a timeout waiting for enc_out_valid is fatal to the current trial
\* only: after it the sweep goes on with the remaining trials and points,
\* until every point has its row.
C11_timeout_fatal_to_trial_only ==
    trial_timed_out =>
        \/ ENABLED SweepNext
        \/ hw_pc = "done" /\ Len(csv) = Len(P_FLIPS)

\* a calibration pass captured fewer bits than its payload has
cal_pass_short ==
    \/ got_a >= 0 /\ got_a < test_len
    \/ got_b >= 0 /\ got_b < test_len

\* a trial is about to compare fewer captured bits than PAYLOAD_LEN
trial_short ==
    /\ pass = "trial" /\ hw_pc = "compare"
    /\ Len(last_slice(decided, PAYLOAD_LEN)) # PAYLOAD_LEN

\* C12: a pass that captured fewer decoded bits than its payload length fails
\* with an error, in a sweep trial and in a calibration pass alike, and no
\* bit-error count is produced or accumulated for it.
C12_short_output_fails ==
    /\ [][trial_short => /\ hw_pc' = "failed" /\ error' = "Not enough decided bits"
                         /\ bit_errors' = bit_errors /\ bit_total' = bit_total]_vars
    /\ [](cal_pass_short => hw_pc = "failed" /\ error = "Not enough decided bits")

(***************************************************************************)
(* The decoder feed and the drain.                                         *)
(***************************************************************************)
\* the bits of the sampled cycles on which dec_bit_valid was 1, in order
valid_bits(samples) ==
    LET asserted == SelectSeq(samples, LAMBDA x : x[1] = 1)
    IN [i \in 1..Len(asserted) |-> asserted[i][2]]

run_over == hw_pc \in {"done", "failed"}

row_accounted(i) ==
    /\ rows[i].p_flip = P_FLIPS[i]
    /\ rows[i].total_bits = TRIALS * PAYLOAD_LEN
    /\ 0 <= rows[i].errors /\ rows[i].errors <= rows[i].total_bits
    /\ rows[i].BER_hw = IF rows[i].total_bits = 0 THEN <<0, 1>>
                        ELSE <<rows[i].errors, rows[i].total_bits>>

\* the counters of the point under way count the trials completed in it
point_counters ==
    (pass = "trial" /\ hw_pc \notin {"point", "write_csv", "done", "failed"})
        => /\ bit_total = trial * PAYLOAD_LEN
           /\ 0 <= bit_errors /\ bit_errors <= bit_total
           /\ Len(rows) = p_idx - 1

\* the bits of this trial's payload that differ from the bit captured at the
\* same distance from the end of decided
trial_mismatches ==
    Cardinality({i \in 1..PAYLOAD_LEN :
                    decided[Len(decided) - PAYLOAD_LEN + i] # hw_payload[i]})

\* C15: the rows are those of the configured points in order, each with
\* total_bits = TRIALS * PAYLOAD_LEN, 0 <= errors <= total_bits and
\* BER = errors / total_bits (0 if total_bits is 0); the counters start from
\* zero at each point; a completed sweep has one row per point; and every
\* trial adds the mismatches between its own payload and the last PAYLOAD_LEN
\* captured bits
C15_sweep_accounting ==
    /\ [](/\ Len(rows) <= Len(P_FLIPS)
          /\ \A i \in 1..Len(rows) : row_accounted(i)
          /\ point_counters
          /\ hw_pc = "done" => csv = rows /\ Len(rows) = Len(P_FLIPS))
    /\ [][hw_pc = "point" /\ hw_pc' \in {"reset", "row"} => bit_errors' = 0 /\ bit_total' = 0]_vars
    /\ [][(hw_pc = "compare" /\ pass = "trial" /\ hw_pc' # "failed")
            => /\ Len(hw_payload) = PAYLOAD_LEN /\ Len(decided) >= PAYLOAD_LEN
               /\ bit_errors' = bit_errors + trial_mismatches
               /\ bit_total' = bit_total + PAYLOAD_LEN]_vars

\* a completed sweep with a point that counted some but not all bits wrong
C15_witness ==
    /\ hw_pc = "done" /\ Len(csv) = Len(P_FLIPS)
    /\ \E i \in 1..Len(csv) : csv[i].errors > 0 /\ csv[i].errors < csv[i].total_bits

(***************************************************************************)
(* The bit-flip channel of the sweep.                                      *)
(***************************************************************************)

\* bit b of a symbol after the channel, decided by the draw r
flipped_by(b, p, r) == IF r < p THEN 1 - b ELSE b

\* C16: the channel takes two draws per symbol, the first deciding v1 and the
\* second v0, and with flip probability 0 its output equals its input
\* whatever the draws are
C16_flip_channel ==
    [][hw_pc = "flips" =>
        LET n == Len(hw_coded)
            base == Len(drawn)
            p == P_FLIPS[p_idx]
        IN /\ Len(drawn') = base + 2 * n
           /\ Len(noisy') = n
           /\ \A t \in 1..n :
                 /\ noisy'[t][1] = flipped_by(hw_coded[t][1], p, drawn'[base + 2 * t - 1])
                 /\ noisy'[t][2] = flipped_by(hw_coded[t][2], p, drawn'[base + 2 * t])
           /\ p = 0 => noisy' = hw_coded]_vars

\* a trial at p = 0 whose symbols passed the channel unchanged although one
\* of its draws was the smallest value of rng.random()
C16_witness ==
    /\ hw_pc = "dec_feed" /\ pass = "trial" /\ P_FLIPS[p_idx] = 0
    /\ noisy # <<>> /\ noisy = hw_coded
    /\ \E i \in 1..(2 * Len(noisy)) : drawn[Len(drawn) - 2 * Len(noisy) + i] = 0

(***************************************************************************)
(* Malformed knobs.                                                        *)
(***************************************************************************)

malformed_knobs == \E i \in 1..Len(P_FLIPS) : P_FLIPS[i] < 0

\* C17: a sweep whose list of flip probabilities has a negative entry is
\* rejected at setup: it ends with a configuration error before any pass or
\* trial runs and before any row is produced
C17_malformed_rejected ==
    malformed_knobs =>
        /\ pass = "none" /\ rows = <<>> /\ csv = <<>>
        /\ hw_pc \in {"calibrate", "failed"}
        /\ hw_pc = "failed" => error = "configuration error"

(***************************************************************************)
(* The forward recursion's choice among equal candidates.                  *)
(***************************************************************************)

\* the edges (s, u) into state n that leave a state reachable at time t
edges_into(t, n) ==
    {e \in States \X Bit : dec.pm[t][e[1]] < INF /\ NEXT_STATE[e[1]][e[2]] = n}

\* pm[t][s] + branchMetric(s, u) for the pair received at time t
edge_metric(t, e) ==
    dec.pm[t][e[1]] + XOR(OUT_BITS[e[1]][e[2]][1], hard[2 * t + 1])
                    + XOR(OUT_BITS[e[1]][e[2]][2], hard[2 * t + 2])

\* the edges into n at time t whose metric is the least
best_edges(t, n) ==
    {e \in edges_into(t, n) : \A f \in edges_into(t, n) : edge_metric(t, e) <= edge_metric(t, f)}

\* e is visited before every other edge of E: states ascending, u = 0 before 1
first_visited(e, E) == \A f \in E : 2 * e[1] + e[2] <= 2 * f[1] + f[2]

\* the states of the last row with the least metric
best_finals == {s \in States : \A r \in States : dec.pm[dec.T][s] <= dec.pm[dec.T][r]}

\* C18: for every time t < T and every state n with an edge from a reachable
\* state, pm[t+1][n] is the least candidate metric into n and (prev, prev_u)
\* is the first edge in visiting order that attains it; a state without such
\* an edge keeps INF and -1; the final state is the lowest-indexed state with
\* the least metric of the last row
C18_tie_break ==
    step = "decoded" =>
        /\ \A t \in 0..(dec.T - 1), n \in States :
              IF edges_into(t, n) = {}
              THEN /\ dec.pm[t + 1][n] = INF
                   /\ dec.prev[t + 1][n] = -1 /\ dec.prev_u[t + 1][n] = -1
              ELSE \E e \in best_edges(t, n) :
                      /\ first_visited(e, best_edges(t, n))
                      /\ dec.pm[t + 1][n] = edge_metric(t, e)
                      /\ dec.prev[t + 1][n] = e[1] /\ dec.prev_u[t + 1][n] = e[2]
        /\ dec.final_s \in best_finals
        /\ \A s \in best_finals : dec.final_s <= s

\* a decoding where two edges into one state tie for the least metric and two
\* states of the last row tie for the least metric
C18_witness ==
    /\ step = "decoded" /\ dec.T >= 1
    /\ \E t \in 0..(dec.T - 1), n \in States : Cardinality(best_edges(t, n)) = 2
    /\ Cardinality(best_finals) >= 2

(***************************************************************************)
(* The traceback.                                                          *)
(***************************************************************************)

\* C19: for T >= 1 the traceback starts in the final state, every state it
\* visits at a time t >= 1 has a recorded predecessor state and input bit,
\* each step goes to that predecessor (never to the default state 0 for
\* want of one), every emitted bit is 0 or 1, and the walk is in state 0 at
\* time 0
C19_no_fallback ==
    (step = "decoded" /\ dec.T >= 1) =>
        /\ Len(dec.walk) = dec.T + 1 /\ Len(dec.uhat) = dec.T
        /\ dec.walk[dec.T + 1] = dec.final_s
        /\ \A t \in 1..dec.T :
              /\ dec.prev[t][dec.walk[t + 1]] >= 0
              /\ dec.prev_u[t][dec.walk[t + 1]] >= 0
              /\ dec.walk[t] = dec.prev[t][dec.walk[t + 1]]
              /\ dec.uhat[t] = dec.prev_u[t][dec.walk[t + 1]]
              /\ dec.uhat[t] \in Bit
        /\ dec.walk[1] = 0

\* a traceback of the longest sequence that starts outside state 0 and
\* passes through a state whose row has states without a predecessor
C19_witness ==
    /\ step = "decoded" /\ dec.T = MaxT /\ dec.final_s # 0
    /\ dec.walk[2] # 0
    /\ \E s \in States : dec.prev[1][s] = -1

(***************************************************************************)
(* The path metrics.                                                       *)
(***************************************************************************)

\* C20: at time 0 only state 0 has a finite metric, and it is 0; at every
\* time t a metric is either INF or lies in 0..2t, which is below INF; and a
\* finite metric at time t+1 exceeds the metric of its recorded predecessor
\* at time t, itself finite, by 0, 1 or 2
C20_path_metrics ==
    step = "decoded" =>
        /\ \A s \in States : dec.pm[0][s] = IF s = 0 THEN 0 ELSE INF
        /\ 2 * dec.T < INF
        /\ \A t \in 0..dec.T, s \in States :
              dec.pm[t][s] = INF \/ (0 <= dec.pm[t][s] /\ dec.pm[t][s] <= 2 * t)
        /\ \A t \in 0..(dec.T - 1), n \in States :
              dec.pm[t + 1][n] < INF =>
                  /\ dec.prev[t + 1][n] \in States
                  /\ dec.pm[t][dec.prev[t + 1][n]] < INF
                  /\ dec.pm[t + 1][n] - dec.pm[t][dec.prev[t + 1][n]] \in {0, 1, 2}

\* tables of the longest sequence with a metric at its upper limit 2t, a
\* step of 2 and a step of 0 along recorded predecessors
C20_witness ==
    /\ step = "decoded" /\ dec.T = MaxT
    /\ \E t \in 1..dec.T, s \in States : dec.pm[t][s] = 2 * t
    /\ \E t \in 1..(dec.T - 1), n \in States :
          dec.pm[t + 1][n] < INF /\ dec.pm[t + 1][n] - dec.pm[t][dec.prev[t + 1][n]] = 2
    /\ \E t \in 1..(dec.T - 1), n \in States :
          dec.pm[t + 1][n] < INF /\ dec.pm[t + 1][n] = dec.pm[t][dec.prev[t + 1][n]]

(***************************************************************************)
(* The encoder against the trellis tables.                                 *)
(***************************************************************************)

RECURSIVE trellis_walk(_, _, _)
\* from state st, the bits i.. taken through the tables: the states passed,
\* the first being st, and the pairs OUT_BITS emits
trellis_walk(bits, i, st) ==
    IF i > Len(bits) THEN [states |-> <<st>>, pairs |-> <<>>]
    ELSE LET rest == trellis_walk(bits, i + 1, NEXT_STATE[st][bits[i]])
         IN [states |-> <<st>> \o rest.states,
             pairs |-> <<OUT_BITS[st][bits[i]]>> \o rest.pairs]

\* a bench has encoded bits_tx, a sequence that ends with a zero tail
tail_encoded == bench \in {"link", "viterbi_sequence"} /\ step # "payload"

\* C21: for the bits a bench has encoded, conv_encode_7_5, the walk through
\* NEXT_STATE / OUT_BITS from state 0 and enc_7_5 give the same pairs; after
\* every bit the low K-1 bits of the register of conv_encode_7_5 are the
\* trellis state; and after the zero tail that state is 0
C21_encoder_trellis_agree ==
    tail_encoded =>
        LET tw   == trellis_walk(bits_tx, 1, 0)
            regs == conv_encode_regs(bits_tx, 1, 0, <<0>>)
        IN /\ Pairs(conv_encode_7_5(bits_tx)) = tw.pairs
           /\ enc_7_5(bits_tx) = tw.pairs
           /\ bench = "link" => Pairs(coded) = tw.pairs
           /\ bench = "viterbi_sequence" => ref = tw.pairs /\ Pairs(coded) = tw.pairs
           /\ Len(regs) = Len(bits_tx) + 1 /\ Len(tw.states) = Len(bits_tx) + 1
           /\ \A j \in 1..Len(regs) : regs[j] % Pow2(K - 1) = tw.states[j]
           /\ tw.states[Len(bits_tx) + 1] = 0

\* the link has encoded a payload of the greatest length that takes the
\* trellis through its highest state and whose register used its top bit
C21_witness ==
    /\ bench = "link" /\ step = "coded" /\ Len(payload) = MaxPayload
    /\ \E j \in 1..(Len(bits_tx) + 1) :
          trellis_walk(bits_tx, 1, 0).states[j] = NUM_STATES - 1
    /\ \E j \in 1..(Len(bits_tx) + 1) :
          conv_encode_regs(bits_tx, 1, 0, <<0>>)[j] >= NUM_STATES

(***************************************************************************)
(* The link's channel without noise.                                       *)
(***************************************************************************)

\* the link has passed its coded bits through the channel
link_received == bench = "link" /\ step \in {"received", "decoded"}

draws_per_trial == PAYLOAD_LEN + 2 * (PAYLOAD_LEN + TB_LEN)

\* the number, counted over the whole sweep from 1, of the trial under way
trial_no == (p_idx - 1) * TRIALS + trial + 1

\* draws made before the n-th trial: the calibration payload and n-1 trials
draws_before(n) == test_len + (n - 1) * draws_per_trial

\* what the draws numbered d+1 .. d+PAYLOAD_LEN of the generator seeded
\* with seed give as a payload
payload_at(seed, d) ==
    [i \in 1..PAYLOAD_LEN |-> randint_value(rng_after(rng_start(seed, 1), d + i))]

\* a trial is under way and has drawn its payload
in_trial_with_payload ==
    pass = "trial" /\ hw_pc \in {"enc_drive", "enc_latency", "enc_poll", "flips", "dec_feed", "compare"}

\* C23: calibration draws test_len values once, before the first trial; every
\* trial then draws PAYLOAD_LEN values for its payload and afterwards
\* 2 * (PAYLOAD_LEN + TB_LEN) values in the channel, whatever the flip
\* probability; so the payload of the n-th trial is the one the seed gives at
\* a fixed position of the stream, whatever the knob P_FLIPS, the device and
\* the selected mapping are
C23_draw_schedule ==
    /\ Len(drawn) = rng_draws
    /\ hw_pc = "calibrate" => rng_draws = 0
    /\ pass \in {"cal_a", "cal_b"} => rng_draws = test_len
    /\ (pass = "trial" /\ hw_pc \in {"reset", "payload"})
          => rng_draws = draws_before(trial_no)
    /\ (pass = "trial" /\ hw_pc \in {"enc_drive", "enc_latency", "enc_poll", "flips"})
          => rng_draws = draws_before(trial_no) + PAYLOAD_LEN
    /\ (pass = "trial" /\ hw_pc \in {"dec_feed", "compare"})
          => /\ rng_draws = draws_before(trial_no + 1)
             /\ Len(noisy) = PAYLOAD_LEN + TB_LEN
    /\ in_trial_with_payload
          => /\ hw_payload = payload_at(rng_seed, draws_before(trial_no))
             /\ \A i \in 1..PAYLOAD_LEN : hw_payload[i] = drawn[draws_before(trial_no) + i]

\* the last trial of a sweep whose first point flips every coded bit, run
\* with the mapping that is not the default, after its channel draws
C23_witness ==
    /\ pass = "trial" /\ hw_pc = "compare"
    /\ trial_no = Len(P_FLIPS) * TRIALS
    /\ P_FLIPS = P_FLIPS_certain /\ mapping = "y1_is_v1"
    /\ rng_draws = draws_before(trial_no + 1)

====
